---------------------------- MODULE Spec2Model ----------------------------
(***************************************************************************)
(* One reconciliation pass of src/sync/issues.ts: syncIssues, its nested   *)
(* syncIssueComments, and the two pure comparators compareIssues and       *)
(* compareComments.                                                        *)
(*                                                                         *)
(* syncIssues is an async function.  Between two awaits it runs to         *)
(* completion, so a state of the model is a suspension point: pc names the *)
(* await the function is parked on, and one action is the resumption of    *)
(* the function when the awaited client call returns or throws, up to the  *)
(* next await (or to the end of the pass).  The synchronous call           *)
(* source.getRepoInfo() of prepareSourceLink is a control point of its own *)
(* because it may throw as well.                                           *)
(*                                                                         *)
(* calls is the history of client calls in issue order, out is what was    *)
(* written to the observability sink (core.info / warning / error).        *)
(***************************************************************************)
EXTENDS Naturals, Sequences, FiniteSets

VARIABLES
    pc,                 \* suspension point of syncIssues
    sourceIssues,       \* const sourceIssues (line 106)
    targetIssues,       \* const targetIssues (line 107)
    issueComparisons,   \* const issueComparisons (line 110)
    cur,                \* position of the for-of loop of line 117 (0: not entered)
    sourceIssueNumber,  \* parameter of the running syncIssueComments (0: none)
    targetIssueNumber,  \* parameter of the running syncIssueComments (0: none)
    sourceComments,     \* const sourceComments (line 179)
    targetComments,     \* const targetComments (line 180)
    commentComparisons, \* const commentComparisons (line 182)
    ccur,               \* position of the for-of loop of line 184 (0: not entered)
    calls,              \* history: client calls, in the order they were issued
    out,                \* history: messages written to the sink
    thrown,             \* the error syncIssues rejected with (NoError: none)
    repos               \* the repositories behind the two clients, where the
                        \* clients answer from them (SpecConverge)

vars == <<pc, sourceIssues, targetIssues, issueComparisons, cur,
          sourceIssueNumber, targetIssueNumber, sourceComments, targetComments,
          commentComparisons, ccur, calls, out, thrown, repos>>

-----------------------------------------------------------------------------
(* Bounds of the model *)

\* longest issue list a client returns in a pass
MaxIssues == 2
\* longest comment thread a client returns in a pass
MaxComments == 2
\* longest issue list given to compareIssues under SpecCompare
CmpMaxIssues == 2
\* longest comment thread given to compareComments under SpecComments
CmpMaxComments == 3
\* most issues the target repository holds at first under SpecConverge
ConvMaxIssues == 1

-----------------------------------------------------------------------------
(* Data: types.ts as used by issues.ts *)

\* A string is modelled as the sequence of the pieces it is concatenated
\* from (a literal, or a number converted by a template); an optional
\* string as a record saying whether it is defined.
Lit(s) == [s |-> s, n |-> 0]
Num(n) == [s |-> "", n |-> n]
Text(s) == [def |-> TRUE, text |-> s]
Undefined == [def |-> FALSE, text |-> <<>>]

NoError == "none"
Errors == {"E1", "E2"}

Titles == {"A", "B"}
Urls == {"https://src"}

\* numbers are unique within a repository; the target's are kept apart
\* from the source's so that a number names its repository
SourceNumber(i) == i
TargetNumber(j) == 100 + j

mkIssue(n, t, b, s, l) ==
    [number |-> n, title |-> t, body |-> b, state |-> s, labels |-> l]

mkComment(i, b) == [id |-> i, body |-> b]

NoArg == [none |-> TRUE]

\* no repositories: the clients answer what they like
NoRepos == [source |-> <<>>, target |-> <<>>]

-----------------------------------------------------------------------------
(* The comparators *)

\* mutant: the labels compared as sets, whatever their order
arraysEqualAsSets(a, b) ==
    {a[index] : index \in 1..Len(a)} = {b[index] : index \in 1..Len(b)}

\* a.length === b.length && a.every((val, index) => val === b[index])
arraysEqual(a, b) ==
    /\ Len(a) = Len(b)
    /\ \A index \in 1..Len(a) : index \in 1..Len(b) /\ a[index] = b[index]

\* mutant: the last match instead of the first one
findLastByTitle(targets, title, j) ==
    LET hits == {m \in j..Len(targets) : targets[m].title = title} IN
    IF hits = {} THEN 0 ELSE CHOOSE m \in hits : \A h \in hits : h <= m

\* targetIssues.find(target => target.title === title): the position of
\* the first match, 0 when there is none
RECURSIVE findByTitle(_, _, _)
findByTitle(targets, title, j) ==
    IF j > Len(targets) THEN 0
    ELSE IF targets[j].title = title THEN j
    ELSE findByTitle(targets, title, j + 1)

\* the comparison pushed for one source issue (lines 19-51); the optional
\* targetIssue is a sequence of no or one issue
HasTarget(comparison) == comparison.targetIssue # <<>>
TargetOf(comparison) == comparison.targetIssue[1]

\* mutant: a comparison to create carries the issue itself as its target
compareOneWithPlaceholder(sourceIssue, targets) ==
    LET j == findByTitle(targets, sourceIssue.title, 1) IN
    IF j = 0
    THEN [sourceIssue |-> sourceIssue, targetIssue |-> <<sourceIssue>>,
          action |-> "create"]
    ELSE LET targetIssue == targets[j] IN
         IF \/ sourceIssue.body # targetIssue.body
            \/ sourceIssue.state # targetIssue.state
            \/ ~arraysEqual(sourceIssue.labels, targetIssue.labels)
         THEN [sourceIssue |-> sourceIssue, targetIssue |-> <<targetIssue>>,
               action |-> "update"]
         ELSE [sourceIssue |-> sourceIssue, targetIssue |-> <<targetIssue>>,
               action |-> "skip"]

compareOne(sourceIssue, targets) ==
    LET j == findByTitle(targets, sourceIssue.title, 1) IN
    IF j = 0
    THEN [sourceIssue |-> sourceIssue, targetIssue |-> <<>>,
          action |-> "create"]
    ELSE LET targetIssue == targets[j] IN
         IF \/ sourceIssue.body # targetIssue.body
            \/ sourceIssue.state # targetIssue.state
            \/ ~arraysEqual(sourceIssue.labels, targetIssue.labels)
         THEN [sourceIssue |-> sourceIssue, targetIssue |-> <<targetIssue>>,
               action |-> "update"]
         ELSE [sourceIssue |-> sourceIssue, targetIssue |-> <<targetIssue>>,
               action |-> "skip"]

\* mutant: unshift instead of push, the comparisons come out reversed
RECURSIVE compareFromUnshift(_, _, _, _)
compareFromUnshift(sources, targets, i, comparisons) ==
    IF i > Len(sources) THEN comparisons
    ELSE compareFromUnshift(sources, targets, i + 1,
                            <<compareOne(sources[i], targets)>> \o comparisons)

\* the for-of loop of line 17, pushing to comparisons
RECURSIVE compareFrom(_, _, _, _)
compareFrom(sources, targets, i, comparisons) ==
    IF i > Len(sources) THEN comparisons
    ELSE compareFrom(sources, targets, i + 1,
                     Append(comparisons, compareOne(sources[i], targets)))

compareIssues(sources, targets) == compareFrom(sources, targets, 1, <<>>)

\* mutant: only the first target comment is looked at
someBodyFirstOnly(comments, body) ==
    Len(comments) > 0 /\ comments[1].body = body

\* targetComments.some(c => c.body === body)
someBody(comments, body) == \E k \in 1..Len(comments) : comments[k].body = body

\* mutant: the whole thread is mirrored, not only its two ends
compareCommentsAll(sComments, tComments) ==
    LET missing(k) == ~someBody(tComments, sComments[k].body)
        RECURSIVE from(_)
        from(k) ==
            IF k > Len(sComments) THEN <<>>
            ELSE (IF missing(k)
                  THEN <<[sourceComment |-> sComments[k], action |-> "create"]>>
                  ELSE <<>>) \o from(k + 1)
    IN from(1)

\* mutant: the closing comment is told from the opening one by its body
compareCommentsByBody(sComments, tComments) ==
    LET n == Len(sComments)
        opening == IF n > 0 /\ ~someBody(tComments, sComments[1].body)
                   THEN <<[sourceComment |-> sComments[1], action |-> "create"]>>
                   ELSE <<>>
        closing == IF /\ n > 0
                      /\ sComments[n].body # sComments[1].body
                      /\ ~someBody(tComments, sComments[n].body)
                   THEN <<[sourceComment |-> sComments[n], action |-> "create"]>>
                   ELSE <<>>
    IN opening \o closing

\* lines 66-98: sourceComments[0] and sourceComments[length - 1], each
\* pushed when it exists and no target comment has its body; the closing
\* one only when it is another object than the opening one
compareComments(sComments, tComments) ==
    LET n == Len(sComments)
        opening == IF n > 0 /\ ~someBody(tComments, sComments[1].body)
                   THEN <<[sourceComment |-> sComments[1], action |-> "create"]>>
                   ELSE <<>>
        closing == IF /\ n > 0
                      /\ sComments[n].id # sComments[1].id
                      /\ ~someBody(tComments, sComments[n].body)
                   THEN <<[sourceComment |-> sComments[n], action |-> "create"]>>
                   ELSE <<>>
    IN opening \o closing

\* `**Original Issue**: [title](url/issues/number)`
prepareSourceLink(url, sourceIssue) ==
    <<Lit("**Original Issue**: ["), Lit(sourceIssue.title), Lit("]("), Lit(url),
      Lit("/issues/"), Num(sourceIssue.number), Lit(")")>>

\* mutant: no `|| ''`, the template spells a missing body out
issueToCreateNoDefault(sourceIssue, sourceLink) ==
    LET b == sourceIssue.body
        spelt == IF b.def THEN b.text ELSE <<Lit("undefined")>>
    IN [sourceIssue EXCEPT !.body = Text(spelt \o <<Lit("\n\n")>> \o sourceLink)]

\* { ...comparison.sourceIssue, body: `${body || ''}\n\n${sourceLink}` }
issueToCreate(sourceIssue, sourceLink) ==
    LET b == sourceIssue.body
        orEmpty == IF b.def /\ b.text # <<>> THEN b.text ELSE <<>>
    IN [sourceIssue EXCEPT !.body = Text(orEmpty \o <<Lit("\n\n")>> \o sourceLink)]

-----------------------------------------------------------------------------
(* What the clients may answer in a pass *)

SeqsUpTo(S, n) == UNION {[1..k -> S] : k \in 0..n}

Labels == <<"bug">>

\* what source.syncIssues() may resolve to: title and body vary, the body
\* may be missing
SourceContents == Titles \X {Text(<<Lit("x")>>), Undefined}
SourceLists ==
    {[i \in 1..Len(c) |->
        mkIssue(SourceNumber(i), c[i][1], c[i][2], "open", Labels)] :
     c \in SeqsUpTo(SourceContents, MaxIssues)}

\* what target.syncIssues() may resolve to: a matched issue is up to date
\* (source body "x") or not (source body missing)
TargetContents == Titles \X {Text(<<Lit("x")>>)}
TargetLists ==
    {[j \in 1..Len(c) |->
        mkIssue(TargetNumber(j), c[j][1], c[j][2], "open", Labels)] :
     c \in SeqsUpTo(TargetContents, MaxIssues)}

\* what getIssueComments() may resolve to: a comment is an object of its
\* own (id), two comments of a thread may have the same body
CommentBodies == {"p", "q"}
Threads ==
    {[k \in 1..Len(b) |-> mkComment(k, b[k])] :
     b \in SeqsUpTo(CommentBodies, MaxComments)}

-----------------------------------------------------------------------------
(* The histories *)

\* a client call as it is issued: res is set when it returns or throws
Call(op, on, idx, num, arg) ==
    [op |-> op, on |-> on, idx |-> idx, num |-> num, arg |-> arg,
     res |-> "pending", err |-> NoError]

\* await: the call is issued and the function is parked on it
Await(cs, call) == Append(cs, call)

\* the awaited call, the last one issued, resolves or rejects with error
Resolve(cs) == [cs EXCEPT ![Len(cs)].res = "ok"]
Rejected(cs, error) ==
    [cs EXCEPT ![Len(cs)].res = "throw", ![Len(cs)].err = error]

\* core.info / core.warning / core.error
Msg(level, msg, idx, arg) ==
    [level |-> level, msg |-> msg, idx |-> idx, arg |-> arg]

Failure(error) == [error |-> error]

\* the control state a resumption leaves behind
Ctl(p, i, sin, tin, cs, o) ==
    [pc |-> p, cur |-> i, sin |-> sin, tin |-> tin, ccur |-> 0, calls |-> cs,
     out |-> o]

-----------------------------------------------------------------------------
(* syncIssues, lines 117-161: from the head of the loop to the next await *)

\* syncIssueComments is called (line 145) and parks on its first await
\* (line 179)
EnterComments(comparisons, i, cs, o) ==
    LET sin == comparisons[i].sourceIssue.number
        tin == TargetOf(comparisons[i]).number
    IN Ctl("awaitSourceComments", i, sin, tin,
           Await(cs, Call("getIssueComments", "source", i, sin, NoArg)), o)

RECURSIVE ProcessFrom(_, _, _, _)

\* mutant: the issue is addressed by the source's number
updateIssueBySourceNumber(comparison, i) ==
    Call("updateIssue", "target", i, comparison.sourceIssue.number,
         comparison.sourceIssue)

\* mutant: the update sends the body with the backlink, as the creation does
updateIssueWithLink(comparison, i) ==
    Call("updateIssue", "target", i, TargetOf(comparison).number,
         issueToCreate(comparison.sourceIssue,
                       prepareSourceLink(CHOOSE url \in Urls : TRUE,
                                         comparison.sourceIssue)))

\* target.updateIssue(comparison.targetIssue.number, comparison.sourceIssue),
\* lines 222-225
updateIssue(comparison, i) ==
    Call("updateIssue", "target", i, TargetOf(comparison).number,
         comparison.sourceIssue)

\* mutant: comment sync only for an issue that was updated
AfterSwitchUpdatedOnly(comparisons, i, cs, o) ==
    IF HasTarget(comparisons[i]) /\ comparisons[i].action = "update"
    THEN EnterComments(comparisons, i, cs, o)
    ELSE ProcessFrom(comparisons, i + 1, cs, o)

\* line 144, after the switch: comment sync when the issue is on both
\* sides, else the next comparison
AfterSwitch(comparisons, i, cs, o) ==
    IF HasTarget(comparisons[i])
    THEN EnterComments(comparisons, i, cs, o)
    ELSE ProcessFrom(comparisons, i + 1, cs, o)

\* the loop head at position i: the switch of line 119 up to its first
\* call; after the last comparison the pass completes (line 161)
ProcessFrom(comparisons, i, cs, o) ==
    IF i > Len(comparisons)
    THEN Ctl("Done", i, 0, 0, cs, Append(o, Msg("info", "completed", 0, NoArg)))
    ELSE LET c == comparisons[i] IN
         CASE c.action = "create" ->
                \* prepareSourceLink calls source.getRepoInfo() (line 62)
                Ctl("callRepoInfo", i, 0, 0,
                    Await(cs, Call("getRepoInfo", "source", i, 0, NoArg)), o)
           [] c.action = "update" ->
                IF ~HasTarget(c)
                THEN \* updateIssue returns at line 219
                     AfterSwitch(comparisons, i, cs, o)
                ELSE Ctl("awaitUpdateIssue", i, 0, 0,
                         Await(cs, updateIssue(c, i)),
                         Append(o, Msg("info", "updating", i, NoArg)))
           [] c.action = "skip" ->
                AfterSwitch(comparisons, i, cs,
                            Append(o, Msg("info", "skipping", i, NoArg)))

\* mutant: the catch takes the same comparison up again
CatchItemRetry(comparisons, i, error, cs, o) ==
    ProcessFrom(comparisons, i, cs,
                Append(o, Msg("warning", "processFailed", i, Failure(error))))

\* mutant: the catch leaves the loop, the pass completes early
CatchItemBreak(comparisons, i, error, cs, o) ==
    ProcessFrom(comparisons, Len(comparisons) + 1, cs,
                Append(o, Msg("warning", "processFailed", i, Failure(error))))

\* mutant: the catch rethrows, the pass is rejected from within the loop
CatchItemRethrow(comparisons, i, error, cs, o) ==
    Ctl("Failed", i, 0, 0, cs,
        Append(o, Msg("error", "syncFailed", 0, Failure(error))))

\* the catch of line 152: a warning, then the next comparison
CatchItem(comparisons, i, error, cs, o) ==
    ProcessFrom(comparisons, i + 1, cs,
                Append(o, Msg("warning", "processFailed", i, Failure(error))))

\* mutant: the error is logged and swallowed
CatchPassSwallow(error, cs, o) ==
    [pc |-> "Done", thrown |-> NoError, calls |-> cs,
     out |-> Append(o, Msg("error", "syncFailed", 0, Failure(error)))]

\* the catch of line 162: the error is logged and rethrown
CatchPass(error, cs, o) ==
    [pc |-> "Failed", thrown |-> error, calls |-> cs,
     out |-> Append(o, Msg("error", "syncFailed", 0, Failure(error)))]

\* syncIssueComments returns to line 151 and the loop goes on
LeaveComments(comparisons, i, cs, o) == ProcessFrom(comparisons, i + 1, cs, o)

\* mutant: forEach with an async callback, every comment is sent at once
\* and none is awaited
CommentLoopForEach(comparisons, i, sin, tin, cmps, k, cs, o) ==
    LeaveComments(comparisons, i,
                  cs \o [m \in 1..(Len(cmps) + 1 - k) |->
                            Call("createIssueComment", "target", i, tin,
                                 cmps[k + m - 1].sourceComment)],
                  o)

\* mutant: the comment is created on the source issue
RECURSIVE CommentLoopOnSource(_, _, _, _, _, _, _, _)
CommentLoopOnSource(comparisons, i, sin, tin, cmps, k, cs, o) ==
    IF k > Len(cmps)
    THEN LeaveComments(comparisons, i, cs, o)
    ELSE IF cmps[k].action # "create"
    THEN CommentLoopOnSource(comparisons, i, sin, tin, cmps, k + 1, cs, o)
    ELSE [Ctl("awaitCreateComment", i, sin, tin,
              Await(cs, Call("createIssueComment", "source", i, sin,
                             cmps[k].sourceComment)),
              Append(o, Msg("info", "creatingComment", i, NoArg)))
          EXCEPT !.ccur = k]

\* the for-of loop of line 184 at position k, up to the await of line 235
RECURSIVE CommentLoop(_, _, _, _, _, _, _, _)
CommentLoop(comparisons, i, sin, tin, cmps, k, cs, o) ==
    IF k > Len(cmps)
    THEN LeaveComments(comparisons, i, cs, o)
    ELSE IF cmps[k].action # "create"
    THEN CommentLoop(comparisons, i, sin, tin, cmps, k + 1, cs, o)
    ELSE [Ctl("awaitCreateComment", i, sin, tin,
              Await(cs, Call("createIssueComment", "target", i, tin,
                             cmps[k].sourceComment)),
              Append(o, Msg("info", "creatingComment", i, NoArg)))
          EXCEPT !.ccur = k]

-----------------------------------------------------------------------------
(* The pass *)

Init ==
    /\ pc = "start"
    /\ sourceIssues = <<>>
    /\ targetIssues = <<>>
    /\ issueComparisons = <<>>
    /\ cur = 0
    /\ sourceIssueNumber = 0
    /\ targetIssueNumber = 0
    /\ sourceComments = <<>>
    /\ targetComments = <<>>
    /\ commentComparisons = <<>>
    /\ ccur = 0
    /\ calls = <<>>
    /\ out = <<>>
    /\ thrown = NoError
    /\ repos = NoRepos

\* the function goes on from ctl
Resume(ctl) ==
    /\ pc' = ctl.pc
    /\ cur' = ctl.cur
    /\ sourceIssueNumber' = ctl.sin
    /\ targetIssueNumber' = ctl.tin
    /\ ccur' = ctl.ccur
    /\ calls' = ctl.calls
    /\ out' = ctl.out

\* the locals of syncIssueComments are gone once it has returned
ResumeFreed(ctl) ==
    /\ Resume(ctl)
    /\ sourceComments' = <<>>
    /\ targetComments' = <<>>
    /\ commentComparisons' = <<>>

\* the pass ends rejected
Reject(f) ==
    /\ pc' = f.pc
    /\ thrown' = f.thrown
    /\ calls' = f.calls
    /\ out' = f.out
    /\ UNCHANGED <<sourceIssues, targetIssues, issueComparisons, cur,
                   sourceIssueNumber, targetIssueNumber, sourceComments,
                   targetComments, commentComparisons, ccur, repos>>

\* syncIssues is called: line 106
Start ==
    /\ pc = "start"
    /\ pc' = "awaitSourceIssues"
    /\ calls' = Await(calls, Call("syncIssues", "source", 0, 0, NoArg))
    /\ UNCHANGED <<sourceIssues, targetIssues, issueComparisons, cur,
                   sourceIssueNumber, targetIssueNumber, sourceComments,
                   targetComments, commentComparisons, ccur, out, thrown,
                   repos>>

\* source.syncIssues() resolves: line 107
ReturnSourceIssues ==
    /\ pc = "awaitSourceIssues"
    /\ \E issues \in SourceLists :
        /\ sourceIssues' = issues
        /\ pc' = "awaitTargetIssues"
        /\ calls' = Await(Resolve(calls),
                          Call("syncIssues", "target", 0, 0, NoArg))
    /\ UNCHANGED <<targetIssues, issueComparisons, cur, sourceIssueNumber,
                   targetIssueNumber, sourceComments, targetComments,
                   commentComparisons, ccur, out, thrown, repos>>

\* source.syncIssues() rejects: line 162
ThrowSourceIssues ==
    /\ pc = "awaitSourceIssues"
    /\ \E error \in Errors : Reject(CatchPass(error, Rejected(calls, error), out))

\* mutant: every comparison that has a target issue counts as skipped
PlanOfByTarget(comparisons) ==
    LET count(a) ==
            Cardinality({k \in 1..Len(comparisons) : comparisons[k].action = a})
    IN [create |-> count("create"), update |-> count("update"),
        skip |-> Cardinality({k \in 1..Len(comparisons) :
                                 HasTarget(comparisons[k])})]

\* the plan summary of logSyncPlan
PlanOf(comparisons) ==
    LET count(a) ==
            Cardinality({k \in 1..Len(comparisons) : comparisons[k].action = a})
    IN [create |-> count("create"), update |-> count("update"),
        skip |-> count("skip")]

logSyncPlan(o, comparisons) ==
    Append(o, Msg("info", "plan", 0, PlanOf(comparisons)))

\* target.syncIssues() resolves: lines 110-117
ReturnTargetIssues ==
    /\ pc = "awaitTargetIssues"
    /\ \E issues \in TargetLists :
        LET comparisons == compareIssues(sourceIssues, issues)
            o == logSyncPlan(Append(out, Msg("info", "analysis", 0, NoArg)),
                             comparisons)
        IN /\ targetIssues' = issues
           /\ issueComparisons' = comparisons
           /\ Resume(ProcessFrom(comparisons, 1, Resolve(calls), o))
    /\ UNCHANGED <<sourceIssues, sourceComments, targetComments,
                   commentComparisons, thrown, repos>>

\* target.syncIssues() rejects: line 162
ThrowTargetIssues ==
    /\ pc = "awaitTargetIssues"
    /\ \E error \in Errors : Reject(CatchPass(error, Rejected(calls, error), out))

\* what no step of the loop assigns: the constants of lines 106-110
Snapshot == <<sourceIssues, targetIssues, issueComparisons, thrown>>

\* and what no step of the loop changes when the repositories are not
\* looked at
Fetched == <<Snapshot, repos>>

\* source.getRepoInfo() returns: lines 63, 123-127 and 210-211
ReturnRepoInfo ==
    /\ pc = "callRepoInfo"
    /\ \E url \in Urls :
        LET sourceIssue == issueComparisons[cur].sourceIssue
            payload == issueToCreate(sourceIssue,
                                     prepareSourceLink(url, sourceIssue))
        IN Resume(Ctl("awaitCreateIssue", cur, 0, 0,
                      Await(Resolve(calls),
                            Call("createIssue", "target", cur, 0, payload)),
                      Append(out, Msg("info", "creating", cur, NoArg))))
    /\ UNCHANGED <<Fetched, sourceComments, targetComments, commentComparisons>>

\* source.getRepoInfo() throws: line 152
ThrowRepoInfo ==
    /\ pc = "callRepoInfo"
    /\ \E error \in Errors :
        Resume(CatchItem(issueComparisons, cur, error, Rejected(calls, error),
                         out))
    /\ UNCHANGED <<Fetched, sourceComments, targetComments, commentComparisons>>

\* target.createIssue() resolves: lines 212, 131 and 144
ReturnCreateIssue ==
    /\ pc = "awaitCreateIssue"
    /\ Resume(AfterSwitch(issueComparisons, cur, Resolve(calls),
                          Append(out, Msg("info", "created", cur, NoArg))))
    /\ UNCHANGED <<Fetched, sourceComments, targetComments, commentComparisons>>

\* target.createIssue() rejects: line 152
ThrowCreateIssue ==
    /\ pc = "awaitCreateIssue"
    /\ \E error \in Errors :
        Resume(CatchItem(issueComparisons, cur, error, Rejected(calls, error),
                         out))
    /\ UNCHANGED <<Fetched, sourceComments, targetComments, commentComparisons>>

\* target.updateIssue() resolves: lines 226, 135 and 144
ReturnUpdateIssue ==
    /\ pc = "awaitUpdateIssue"
    /\ Resume(AfterSwitch(issueComparisons, cur, Resolve(calls),
                          Append(out, Msg("info", "updated", cur, NoArg))))
    /\ UNCHANGED <<Fetched, sourceComments, targetComments, commentComparisons>>

\* target.updateIssue() rejects: line 152
ThrowUpdateIssue ==
    /\ pc = "awaitUpdateIssue"
    /\ \E error \in Errors :
        Resume(CatchItem(issueComparisons, cur, error, Rejected(calls, error),
                         out))
    /\ UNCHANGED <<Fetched, sourceComments, targetComments, commentComparisons>>

-----------------------------------------------------------------------------
(* syncIssueComments *)

\* mutant: no catch in syncIssueComments, the error reaches line 152
CatchCommentsPropagate(comparisons, i, sin, error, cs, o) ==
    CatchItem(comparisons, i, error, cs, o)

\* the catch of line 197: a warning, and syncIssueComments returns
CatchComments(comparisons, i, sin, error, cs, o) ==
    LeaveComments(comparisons, i, cs,
                  Append(o, Msg("warning", "commentsFailed", i, Failure(error))))

\* mutant: the try is around the loop, a failed comment ends it
CatchCommentLeave(comparisons, i, sin, tin, cmps, k, error, cs, o) ==
    LeaveComments(comparisons, i, cs,
                  Append(o, Msg("warning", "commentFailed", i, Failure(error))))

\* the catch of line 189: a warning, then the next comment comparison
CatchComment(comparisons, i, sin, tin, cmps, k, error, cs, o) ==
    CommentLoop(comparisons, i, sin, tin, cmps, k + 1, cs,
                Append(o, Msg("warning", "commentFailed", i, Failure(error))))

\* source.getIssueComments() resolves: line 180
ReturnSourceComments ==
    /\ pc = "awaitSourceComments"
    /\ \E comments \in Threads :
        /\ sourceComments' = comments
        /\ pc' = "awaitTargetComments"
        /\ calls' = Await(Resolve(calls),
                          Call("getIssueComments", "target", cur,
                               targetIssueNumber, NoArg))
    /\ UNCHANGED <<Fetched, cur, sourceIssueNumber, targetIssueNumber,
                   targetComments, commentComparisons, ccur, out>>

\* source.getIssueComments() rejects: line 197
ThrowSourceComments ==
    /\ pc = "awaitSourceComments"
    /\ \E error \in Errors :
        ResumeFreed(CatchComments(issueComparisons, cur, sourceIssueNumber,
                                  error, Rejected(calls, error), out))
    /\ UNCHANGED Fetched

\* target.getIssueComments() resolves: lines 182-187
ReturnTargetComments ==
    /\ pc = "awaitTargetComments"
    /\ \E comments \in Threads :
        LET cmps == compareComments(sourceComments, comments)
            ctl == CommentLoop(issueComparisons, cur, sourceIssueNumber,
                               targetIssueNumber, cmps, 1,
                               Resolve(calls), out)
        IN IF ctl.pc = "awaitCreateComment"
           THEN /\ Resume(ctl)
                /\ targetComments' = comments
                /\ commentComparisons' = cmps
                /\ UNCHANGED sourceComments
           ELSE ResumeFreed(ctl)
    /\ UNCHANGED Fetched

\* target.getIssueComments() rejects: line 197
ThrowTargetComments ==
    /\ pc = "awaitTargetComments"
    /\ \E error \in Errors :
        ResumeFreed(CatchComments(issueComparisons, cur, sourceIssueNumber,
                                  error, Rejected(calls, error), out))
    /\ UNCHANGED Fetched

\* the loop of line 184 goes on, or syncIssueComments has returned
ResumeComments(ctl) ==
    IF ctl.pc = "awaitCreateComment"
    THEN /\ Resume(ctl)
         /\ UNCHANGED <<sourceComments, targetComments, commentComparisons>>
    ELSE ResumeFreed(ctl)

\* target.createIssueComment() resolves: lines 236 and 184
ReturnCreateComment ==
    /\ pc = "awaitCreateComment"
    /\ ResumeComments(
          CommentLoop(issueComparisons, cur, sourceIssueNumber,
                      targetIssueNumber, commentComparisons, ccur + 1,
                      Resolve(calls),
                      Append(out, Msg("info", "createdComment", cur, NoArg))))
    /\ UNCHANGED Fetched

\* target.createIssueComment() rejects: line 189
ThrowCreateComment ==
    /\ pc = "awaitCreateComment"
    /\ \E error \in Errors :
        ResumeComments(
          CatchComment(issueComparisons, cur, sourceIssueNumber,
                       targetIssueNumber, commentComparisons, ccur, error,
                       Rejected(calls, error), out))
    /\ UNCHANGED Fetched

-----------------------------------------------------------------------------
(* The specifications *)

Next ==
    \/ Start
    \/ ReturnSourceIssues
    \/ ThrowSourceIssues
    \/ ReturnTargetIssues
    \/ ThrowTargetIssues
    \/ ReturnRepoInfo
    \/ ThrowRepoInfo
    \/ ReturnCreateIssue
    \/ ThrowCreateIssue
    \/ ReturnUpdateIssue
    \/ ThrowUpdateIssue
    \/ ReturnSourceComments
    \/ ThrowSourceComments
    \/ ReturnTargetComments
    \/ ThrowTargetComments
    \/ ReturnCreateComment
    \/ ThrowCreateComment

Spec == Init /\ [][Next]_vars

\* every client call returns or throws in the end
FairSpec == Spec /\ WF_vars(Next)

-----------------------------------------------------------------------------
(* compareIssues on its own: the lists are given, the comparison is taken  *)

\* an issue, and the ways another one of the same title differs from it:
\* in body, in state, in the order of its labels, in their number
CmpContents ==
    Titles \X
    { <<Text(<<Lit("x")>>), "open", <<"a", "b">>>>,
      <<Text(<<Lit("y")>>), "open", <<"a", "b">>>>,
      <<Text(<<Lit("x")>>), "closed", <<"a", "b">>>>,
      <<Text(<<Lit("x")>>), "open", <<"b", "a">>>>,
      <<Text(<<Lit("x")>>), "open", <<"a">>>> }

CmpSourceLists ==
    {[i \in 1..Len(c) |->
        mkIssue(SourceNumber(i), c[i][1], c[i][2][1], c[i][2][2], c[i][2][3])] :
     c \in SeqsUpTo(CmpContents, CmpMaxIssues)}

CmpTargetLists ==
    {[j \in 1..Len(c) |->
        mkIssue(TargetNumber(j), c[j][1], c[j][2][1], c[j][2][2], c[j][2][3])] :
     c \in SeqsUpTo(CmpContents, CmpMaxIssues)}

InitCompare ==
    /\ pc = "compare"
    /\ sourceIssues \in CmpSourceLists
    /\ targetIssues \in CmpTargetLists
    /\ issueComparisons = <<>>
    /\ cur = 0
    /\ sourceIssueNumber = 0
    /\ targetIssueNumber = 0
    /\ sourceComments = <<>>
    /\ targetComments = <<>>
    /\ commentComparisons = <<>>
    /\ ccur = 0
    /\ calls = <<>>
    /\ out = <<>>
    /\ thrown = NoError
    /\ repos = NoRepos

\* const issueComparisons = compareIssues(sourceIssues, targetIssues)
CompareStep ==
    /\ pc = "compare"
    /\ issueComparisons' = compareIssues(sourceIssues, targetIssues)
    /\ pc' = "compared"
    /\ UNCHANGED <<sourceIssues, targetIssues, cur, sourceIssueNumber,
                   targetIssueNumber, sourceComments, targetComments,
                   commentComparisons, ccur, calls, out, thrown, repos>>

NextCompare == CompareStep

SpecCompare == InitCompare /\ [][NextCompare]_vars

-----------------------------------------------------------------------------
(* Claims about compareIssues, under SpecCompare *)

Compared == pc = "compared"

\* the positions of the target issues that have this title
Matches(title) ==
    {j \in 1..Len(targetIssues) : targetIssues[j].title = title}

FirstMatch(title) ==
    CHOOSE j \in Matches(title) : \A m \in Matches(title) : j <= m

\* C8: compareIssues is defined on every pair of lists and returns exactly
\* one comparison per source issue, in source order (the i-th comparison
\* is about the i-th source issue); taking the comparison changes neither
\* input list.
C8_OnePerSourceInOrder ==
    /\ [](Compared =>
            /\ Len(issueComparisons) = Len(sourceIssues)
            /\ \A i \in 1..Len(sourceIssues) :
                  issueComparisons[i].sourceIssue = sourceIssues[i])
    /\ [][sourceIssues' = sourceIssues /\ targetIssues' = targetIssues]_vars

\* two different source issues and two target issues were compared
C8_Witness ==
    /\ Compared
    /\ Len(sourceIssues) = 2
    /\ Len(targetIssues) = 2
    /\ sourceIssues[1].title # sourceIssues[2].title
    /\ issueComparisons[1].action = "create"
    /\ issueComparisons[2].action = "update"

\* C9: in every comparison targetIssue is present exactly when the action
\* is update or skip and absent exactly when it is create; when present it
\* is the first target issue, in target order, that has the source issue's
\* title, also for source issues that share a title.
C9_TargetIffMatched ==
    Compared =>
        \A i \in 1..Len(issueComparisons) :
            LET c == issueComparisons[i] IN
            /\ HasTarget(c) <=> c.action \in {"update", "skip"}
            /\ ~HasTarget(c) <=> c.action = "create"
            /\ HasTarget(c) =>
                  /\ Len(c.targetIssue) = 1
                  /\ Matches(c.sourceIssue.title) # {}
                  /\ TargetOf(c) = targetIssues[FirstMatch(c.sourceIssue.title)]

\* two source issues of one title, two different target issues of that
\* title: both are matched with the first target issue
C9_Witness ==
    /\ Compared
    /\ Len(sourceIssues) = 2
    /\ Len(targetIssues) = 2
    /\ sourceIssues[1].title = sourceIssues[2].title
    /\ targetIssues[1].title = sourceIssues[1].title
    /\ targetIssues[2].title = sourceIssues[1].title
    /\ targetIssues[1].body # targetIssues[2].body
    /\ TargetOf(issueComparisons[1]) = targetIssues[1]
    /\ TargetOf(issueComparisons[2]) = targetIssues[1]
    /\ issueComparisons[1].action = "skip"
    /\ issueComparisons[2].action = "update"

\* the issue differs from the target issue it was matched with
Differs(s, t) == s.body # t.body \/ s.state # t.state \/ s.labels # t.labels

\* C10: a source issue is classified create iff no target issue has its
\* title; otherwise update iff the first target issue of that title
\* differs from it in body, in state or in labels as ordered sequences,
\* and skip otherwise.
C10_Classification ==
    Compared =>
        /\ Len(issueComparisons) = Len(sourceIssues)
        /\ \A i \in 1..Len(sourceIssues) :
            LET s == sourceIssues[i]
                a == issueComparisons[i].action
            IN /\ a \in {"create", "update", "skip"}
               /\ a = "create" <=> Matches(s.title) = {}
               /\ Matches(s.title) # {} =>
                     (a = "update" <=>
                         Differs(s, targetIssues[FirstMatch(s.title)]))

\* a pair that differs in the order of the same labels only is an update
C10_Witness ==
    /\ Compared
    /\ Len(sourceIssues) = 1
    /\ Len(targetIssues) = 1
    /\ sourceIssues[1].title = targetIssues[1].title
    /\ sourceIssues[1].body = targetIssues[1].body
    /\ sourceIssues[1].state = targetIssues[1].state
    /\ sourceIssues[1].labels = <<"a", "b">>
    /\ targetIssues[1].labels = <<"b", "a">>
    /\ issueComparisons[1].action = "update"

-----------------------------------------------------------------------------
(* Claims about the pass, under Spec *)

MutationOps == {"createIssue", "updateIssue", "createIssueComment"}

CommentPcs == {"awaitSourceComments", "awaitTargetComments", "awaitCreateComment"}

\* both fetches of lines 106-107 have resolved
FetchesOk ==
    /\ Len(calls) >= 2
    /\ calls[1].op = "syncIssues" /\ calls[1].res = "ok"
    /\ calls[2].op = "syncIssues" /\ calls[2].res = "ok"

\* a call of this kind was issued for the comparison at position j
Called(op, j) == \E k \in 1..Len(calls) : calls[k].op = op /\ calls[k].idx = j

\* ... and has ended this way
Ended(op, j, res) ==
    \E k \in 1..Len(calls) :
        calls[k].op = op /\ calls[k].idx = j /\ calls[k].res = res

\* this message was written for the comparison at position j
Said(msg, j) == \E m \in 1..Len(out) : out[m].msg = msg /\ out[m].idx = j

\* the comparison at position j was attempted: its branch of the switch
\* was taken up to its first call or message
Attempted(j) ==
    LET c == issueComparisons[j] IN
    CASE c.action = "create" ->
            /\ Called("getRepoInfo", j)
            /\ Ended("getRepoInfo", j, "ok") =>
                  \E k \in 1..Len(calls) :
                      /\ calls[k].op = "createIssue"
                      /\ calls[k].on = "target"
                      /\ calls[k].idx = j
                      /\ calls[k].arg.title = c.sourceIssue.title
      [] c.action = "update" ->
            \E k \in 1..Len(calls) :
                /\ calls[k].op = "updateIssue"
                /\ calls[k].on = "target"
                /\ calls[k].idx = j
                /\ calls[k].num = TargetOf(c).number
      [] c.action = "skip" -> Said("skipping", j)

\* the calls were issued in the order of the source issues
InSourceOrder ==
    \A k, l \in 1..Len(calls) : k < l => calls[k].idx <= calls[l].idx

\* C1: when source.syncIssues() or target.syncIssues() throws, syncIssues
\* rejects with that same error and no createIssue, updateIssue or
\* createIssueComment call is issued in the pass.
C1_FetchFailureRethrown ==
    \A k \in 1..Len(calls) :
        (calls[k].op = "syncIssues" /\ calls[k].res = "throw") =>
            /\ pc = "Failed"
            /\ thrown = calls[k].err
            /\ thrown \in Errors
            /\ \A m \in 1..Len(calls) : calls[m].op \notin MutationOps

\* the source has issues to copy and the fetch of the target's throws
C1_Witness ==
    /\ pc = "Failed"
    /\ Len(sourceIssues) = 2
    /\ Len(calls) = 2
    /\ calls[1].res = "ok"
    /\ calls[2].op = "syncIssues"
    /\ calls[2].on = "target"
    /\ calls[2].res = "throw"
    /\ calls[2].err = "E2"
    /\ thrown = "E2"

\* C2: once both fetches have succeeded, a failing createIssue, updateIssue
\* or getRepoInfo never aborts the pass: the pass is never rejected, every
\* comparison up to the current one has been attempted, in source order,
\* and a completed pass has attempted them all.
C2_ItemFailureIsolated ==
    FetchesOk =>
        /\ pc # "Failed"
        /\ thrown = NoError
        /\ cur \in 1..(Len(issueComparisons) + 1)
        /\ pc = "Done" <=> cur = Len(issueComparisons) + 1
        /\ \A j \in 1..Len(issueComparisons) : j <= cur => Attempted(j)
        /\ InSourceOrder

\* the update of the first issue fails, the creation of the second one is
\* attempted and the pass completes
C2_Witness ==
    /\ pc = "Done"
    /\ Len(issueComparisons) = 2
    /\ issueComparisons[1].action = "update"
    /\ Ended("updateIssue", 1, "throw")
    /\ issueComparisons[2].action = "create"
    /\ Called("createIssue", 2)
    /\ thrown = NoError

\* syncIssueComments was called for the comparison at position j, with the
\* number of its source issue
Entered(j) ==
    \E k \in 1..Len(calls) :
        /\ calls[k].op = "getIssueComments"
        /\ calls[k].on = "source"
        /\ calls[k].idx = j
        /\ calls[k].num = issueComparisons[j].sourceIssue.number

\* while syncIssueComments runs, its parameters are the numbers of the
\* pair of the current comparison
ParametersOfPair ==
    pc \in CommentPcs =>
        /\ cur \in 1..Len(issueComparisons)
        /\ HasTarget(issueComparisons[cur])
        /\ sourceIssueNumber = issueComparisons[cur].sourceIssue.number
        /\ targetIssueNumber = TargetOf(issueComparisons[cur]).number
        /\ Entered(cur)

\* C3 as claimed: in a completed pass comment synchronization was entered
\* for every comparison that has a targetIssue, however the issue step
\* ended.
C3_CommentsAlwaysEntered ==
    pc = "Done" =>
        \A j \in 1..Len(issueComparisons) :
            HasTarget(issueComparisons[j]) => Entered(j)

\* C3 as amended: for every comparison with a targetIssue that the loop
\* has passed, comment synchronization was entered with the numbers of the
\* pair exactly when the issue step did not throw (a skip, or an update
\* whose updateIssue call returned); when updateIssue throws, comment
\* synchronization is not run for that comparison.
C3_CommentsEnteredUnlessUpdateThrew ==
    /\ ParametersOfPair
    /\ \A j \in 1..Len(issueComparisons) :
          (HasTarget(issueComparisons[j]) /\ j < cur) =>
              (Entered(j) <=> ~Ended("updateIssue", j, "throw"))

\* an issue whose update throws gets no comment synchronization, an issue
\* that is skipped gets it
C3_Witness ==
    /\ pc = "Done"
    /\ Len(issueComparisons) = 2
    /\ issueComparisons[1].action = "update"
    /\ Ended("updateIssue", 1, "throw")
    /\ ~Entered(1)
    /\ issueComparisons[2].action = "skip"
    /\ Entered(2)

\* C4: when getIssueComments throws on either side, nothing propagates:
\* a warning about the comments is written, no createIssueComment call is
\* made for that pair, no 'Failed to process issue' warning is written for
\* that issue, the pass is not rejected and goes on with the next
\* comparison (or completes after the last one).
C4_CommentFetchFailureContained ==
    \A k \in 1..Len(calls) :
        (calls[k].op = "getIssueComments" /\ calls[k].res = "throw") =>
            LET j == calls[k].idx IN
            /\ ~Called("createIssueComment", j)
            /\ ~Said("processFailed", j)
            /\ \E m \in 1..Len(out) :
                  /\ out[m].level = "warning"
                  /\ out[m].msg = "commentsFailed"
                  /\ out[m].idx = j
                  /\ out[m].arg = Failure(calls[k].err)
            /\ pc # "Failed"
            /\ thrown = NoError
            /\ cur > j
            /\ \A l \in 1..Len(calls) : l > k => calls[l].idx > j
            /\ IF j < Len(issueComparisons)
               THEN Attempted(j + 1)
               ELSE pc = "Done"

\* the fetch of the target's comments throws for the first issue, the
\* second issue is processed
C4_Witness ==
    /\ pc = "Done"
    /\ Len(issueComparisons) = 2
    /\ \E k \in 1..Len(calls) :
          /\ calls[k].op = "getIssueComments"
          /\ calls[k].on = "target"
          /\ calls[k].idx = 1
          /\ calls[k].res = "throw"
    /\ Called("updateIssue", 2)

\* C5: a createIssueComment call that returns or throws is followed by the
\* call for the next comment comparison when there is one, and by the
\* return of syncIssueComments to the loop after the last one; in either
\* case nothing propagates.
C5_SiblingCommentsAttempted ==
    [][pc = "awaitCreateComment" =>
         /\ thrown' = NoError
         /\ \A m \in 1..Len(out') :
               out'[m].msg = "processFailed" => out'[m].idx # cur
         /\ IF ccur < Len(commentComparisons)
            THEN /\ pc' = "awaitCreateComment"
                 /\ cur' = cur
                 /\ ccur' = ccur + 1
                 /\ Len(calls') = Len(calls) + 1
                 /\ calls'[Len(calls')] =
                       Call("createIssueComment", "target", cur,
                            targetIssueNumber,
                            commentComparisons[ccur + 1].sourceComment)
            ELSE /\ pc' \notin {"Failed", "awaitCreateComment"}
                 /\ cur' = cur + 1]_vars

\* creating the opening comment throws and the closing one is created
C5_Witness ==
    \E k \in 1..Len(calls) :
        /\ k < Len(calls)
        /\ calls[k].op = "createIssueComment"
        /\ calls[k].arg.id = 1
        /\ calls[k].res = "throw"
        /\ calls[k + 1].op = "createIssueComment"
        /\ calls[k + 1].idx = calls[k].idx
        /\ calls[k + 1].arg.id = 2
        /\ calls[k + 1].res = "ok"

\* C6 (under FairSpec): every pass ends, as Done or as Failed, and stays
\* so; a pass that is Done has rejected with nothing, a pass that is
\* Failed has rejected with the error of a fetch before any comparison was
\* taken up, and once the first comparison is taken up the pass cannot
\* become Failed.
C6_EndsDoneOrFailed ==
    /\ <>(pc \in {"Done", "Failed"})
    /\ [](pc = "Done" => thrown = NoError)
    /\ [](pc = "Failed" =>
             /\ thrown \in Errors
             /\ cur = 0
             /\ \A k \in 1..Len(calls) : calls[k].op = "syncIssues")
    /\ [][(pc \in {"Done", "Failed"} => pc' = pc)
          /\ (cur >= 1 => pc' # "Failed")]_vars

\* a pass that completes although calls have thrown on the way
C6_Witness ==
    /\ pc = "Done"
    /\ Len(issueComparisons) = 2
    /\ Ended("createIssue", 1, "throw")
    /\ Ended("getIssueComments", 2, "throw")

\* C7: the calls of a pass are issued one at a time and in source order:
\* only the call issued last can be outstanding, the function is parked
\* on it, both fetches have resolved before any call is made for a
\* comparison, and no call for an issue is issued before a call for an
\* earlier one.
C7_Sequential ==
    /\ \A k \in 1..Len(calls) : calls[k].res = "pending" => k = Len(calls)
    /\ pc \notin {"start", "Done", "Failed"} =>
          (calls # <<>> /\ calls[Len(calls)].res = "pending")
    /\ \A k \in 1..Len(calls) :
          (calls[k].idx > 0 \/ calls[k].op \in MutationOps) =>
              (k > 2 /\ FetchesOk /\ calls[1].on = "source"
                     /\ calls[2].on = "target")
    /\ InSourceOrder

\* two issues with comments created for both, every call settled
C7_Witness ==
    /\ pc = "Done"
    /\ Called("createIssueComment", 1)
    /\ Called("updateIssue", 2)
    /\ Called("createIssueComment", 2)
    /\ \A k \in 1..Len(calls) : calls[k].res # "pending"

-----------------------------------------------------------------------------
(* compareComments on its own: the threads are given, the comparison is    *)
(* taken                                                                   *)

CmpThreads ==
    {[k \in 1..Len(b) |-> mkComment(k, b[k])] :
     b \in SeqsUpTo(CommentBodies, CmpMaxComments)}

InitComments ==
    /\ pc = "compareComments"
    /\ sourceComments \in CmpThreads
    /\ targetComments \in CmpThreads
    /\ commentComparisons = <<>>
    /\ sourceIssues = <<>>
    /\ targetIssues = <<>>
    /\ issueComparisons = <<>>
    /\ cur = 0
    /\ sourceIssueNumber = 0
    /\ targetIssueNumber = 0
    /\ ccur = 0
    /\ calls = <<>>
    /\ out = <<>>
    /\ thrown = NoError
    /\ repos = NoRepos

\* const commentComparisons = compareComments(sourceComments, targetComments)
CompareCommentsStep ==
    /\ pc = "compareComments"
    /\ commentComparisons' = compareComments(sourceComments, targetComments)
    /\ pc' = "commentsCompared"
    /\ UNCHANGED <<sourceIssues, targetIssues, issueComparisons, cur,
                   sourceIssueNumber, targetIssueNumber, sourceComments,
                   targetComments, ccur, calls, out, thrown, repos>>

NextComments == CompareCommentsStep

SpecComments == InitComments /\ [][NextComments]_vars

-----------------------------------------------------------------------------
(* Claims about compareComments, under SpecComments *)

CommentsCompared == pc = "commentsCompared"

\* the comparison holds this comment (the object, not only its body)
Includes(comment) ==
    \E k \in 1..Len(commentComparisons) :
        commentComparisons[k].sourceComment = comment

\* a target comment has this body
OnTarget(body) ==
    \E t \in 1..Len(targetComments) : targetComments[t].body = body

\* C11: compareComments returns at most 2 comparisons, at most 1 for a
\* thread of one comment and none for an empty thread; every comparison
\* is a create of the first or of the last source comment, never of one
\* in between, the opening one before the closing one.
C11_OnlyOpeningAndClosing ==
    CommentsCompared =>
        LET n == Len(sourceComments)
            m == Len(commentComparisons)
        IN /\ m <= 2
           /\ n = 1 => m <= 1
           /\ n = 0 => m = 0
           /\ \A k \in 1..m :
                 /\ commentComparisons[k].action = "create"
                 /\ n > 0
                 /\ commentComparisons[k].sourceComment
                       \in {sourceComments[1], sourceComments[n]}
           /\ m = 2 =>
                 /\ n > 1
                 /\ commentComparisons[1].sourceComment = sourceComments[1]
                 /\ commentComparisons[2].sourceComment = sourceComments[n]

\* a thread of three comments none of which is on the target: the first
\* and the third are to be created, the second is not
C11_Witness ==
    /\ CommentsCompared
    /\ Len(sourceComments) = 3
    /\ sourceComments[2].body # sourceComments[1].body
    /\ targetComments = <<>>
    /\ Len(commentComparisons) = 2
    /\ Includes(sourceComments[1])
    /\ ~Includes(sourceComments[2])
    /\ Includes(sourceComments[3])

\* C12: the opening (first) source comment is in the result, as a create,
\* iff the thread is not empty and no target comment has its body.
C12_OpeningIffMissing ==
    CommentsCompared =>
        /\ (Len(sourceComments) > 0 /\ Includes(sourceComments[1]))
              <=> (Len(sourceComments) > 0
                   /\ ~OnTarget(sourceComments[1].body))
        /\ Len(sourceComments) = 0 => commentComparisons = <<>>
        /\ (Len(sourceComments) > 0 /\ Includes(sourceComments[1])) =>
              commentComparisons[1] =
                  [sourceComment |-> sourceComments[1], action |-> "create"]

\* the body of the opening comment is the body of the second target
\* comment, not of the first: the opening comment is left out
C12_Witness ==
    /\ CommentsCompared
    /\ Len(sourceComments) = 1
    /\ Len(targetComments) = 2
    /\ targetComments[1].body # sourceComments[1].body
    /\ targetComments[2].body = sourceComments[1].body
    /\ commentComparisons = <<>>

\* C13: the closing (last) source comment is in the result as the closing
\* entry iff it is another object than the opening one (the thread has at
\* least two comments), whatever its body, and no comment of the target
\* list that was passed in has its body; a thread of one comment gets no
\* entry for its closing comment.
C13_ClosingIffOtherAndMissing ==
    CommentsCompared =>
        LET n == Len(sourceComments) IN
        /\ n >= 2 =>
              (Includes(sourceComments[n])
                  <=> ~OnTarget(sourceComments[n].body))
        /\ n >= 2 /\ Includes(sourceComments[n]) =>
              commentComparisons[Len(commentComparisons)] =
                  [sourceComment |-> sourceComments[n], action |-> "create"]
        /\ n <= 1 => Len(commentComparisons) <= n

\* the closing comment has the body of the opening one and the target
\* has neither: both are to be created
C13_Witness ==
    /\ CommentsCompared
    /\ Len(sourceComments) = 3
    /\ sourceComments[3].body = sourceComments[1].body
    /\ targetComments = <<>>
    /\ Len(commentComparisons) = 2
    /\ commentComparisons[1].sourceComment = sourceComments[1]
    /\ commentComparisons[2].sourceComment = sourceComments[3]

-----------------------------------------------------------------------------
(* Further claims about the pass, under Spec *)

\* how many calls of this kind were issued for the comparison at position j
Count(op, j) ==
    Cardinality({k \in 1..Len(calls) : calls[k].op = op /\ calls[k].idx = j})

\* no call is issued twice: two calls of one kind to one client for one
\* comparison are the creations of two different comments
NeverRepeated ==
    \A k, l \in 1..Len(calls) :
        (/\ k < l
         /\ calls[k].op = calls[l].op
         /\ calls[k].on = calls[l].on
         /\ calls[k].idx = calls[l].idx) =>
            /\ calls[k].op = "createIssueComment"
            /\ calls[k].arg.id # calls[l].arg.id

\* at most one createIssueComment call per comment comparison: while the
\* loop of line 184 runs, the calls made for the pair are those of the
\* comparisons taken so far, one each and in their order
OnePerCommentComparison ==
    /\ \A j \in 1..Len(issueComparisons) : Count("createIssueComment", j) <= 2
    /\ pc = "awaitCreateComment" =>
          /\ Count("createIssueComment", cur) = ccur
          /\ \A c \in 1..ccur :
                calls[Len(calls) - ccur + c].arg =
                    commentComparisons[c].sourceComment

\* C14 as claimed: a comparison the loop has passed has caused exactly one
\* createIssue call when its action is create, exactly one updateIssue
\* call when it is update, and no issue mutation when it is skip.
C14_ExactlyOnePerAction ==
    \A j \in 1..Len(issueComparisons) :
        j < cur =>
            LET a == issueComparisons[j].action IN
            /\ Count("createIssue", j) = (IF a = "create" THEN 1 ELSE 0)
            /\ Count("updateIssue", j) = (IF a = "update" THEN 1 ELSE 0)

\* C14 as amended: a comparison causes at most one issue mutation, of the
\* kind of its action: for create exactly one createIssue call, or none
\* when building the backlink (source.getRepoInfo) threw; for update
\* exactly one updateIssue call; for skip none.  A comment comparison
\* causes at most one createIssueComment call.  No call is issued again
\* after it threw, the fetches of the issues included.
C14_AtMostOnePerAction ==
    /\ \A j \in 1..Len(issueComparisons) :
          LET a == issueComparisons[j].action IN
          /\ Count("createIssue", j) + Count("updateIssue", j) <= 1
          /\ a # "create" => Count("createIssue", j) = 0
          /\ a # "update" => Count("updateIssue", j) = 0
          /\ j < cur =>
                /\ a = "update" => Count("updateIssue", j) = 1
                /\ a = "create" =>
                      Count("createIssue", j) =
                          (IF Ended("getRepoInfo", j, "ok") THEN 1 ELSE 0)
    /\ OnePerCommentComparison
    /\ NeverRepeated

\* a create whose backlink could not be built, and an update that threw:
\* no createIssue call for the first, one updateIssue call for the second
C14_Witness ==
    /\ pc = "Done"
    /\ Len(issueComparisons) = 2
    /\ issueComparisons[1].action = "create"
    /\ Ended("getRepoInfo", 1, "throw")
    /\ Count("createIssue", 1) = 0
    /\ issueComparisons[2].action = "update"
    /\ Ended("updateIssue", 2, "throw")
    /\ Count("updateIssue", 2) = 1


\* the positions in calls of the calls of this kind
CallsOf(op) == {k \in 1..Len(calls) : calls[k].op = op}

\* a text holds the issue's title, and the address of the issue under one
\* of the repository urls
HoldsTitle(text, issue) == \E a \in 1..Len(text) : text[a] = Lit(issue.title)
HoldsAddress(text, issue) ==
    \E a \in 1..Len(text) : \E url \in Urls :
        /\ a + 2 <= Len(text)
        /\ text[a] = Lit(url)
        /\ text[a + 1] = Lit("/issues/")
        /\ text[a + 2] = Num(issue.number)

\* C15: the payload of every createIssue call has the title, state, labels
\* and number of the fetched source issue; its body is the source body
\* (empty when missing), a blank line, and then to its end a backlink
\* holding the issue's title and url/issues/number.  The fetched source
\* issue is as it was fetched.
C15_CreatePayload ==
    /\ \A k \in CallsOf("createIssue") :
          LET j == calls[k].idx
              fetched == sourceIssues[j]
              payload == calls[k].arg
              original == IF fetched.body.def THEN fetched.body.text ELSE <<>>
              n == Len(original)
              text == payload.body.text
          IN /\ calls[k].on = "target"
             /\ issueComparisons[j].action = "create"
             /\ payload.title = fetched.title
             /\ payload.state = fetched.state
             /\ payload.labels = fetched.labels
             /\ payload.number = fetched.number
             /\ payload.body.def
             /\ Len(text) > n + 1
             /\ SubSeq(text, 1, n) = original
             /\ text[n + 1] = Lit("\n\n")
             /\ HoldsTitle(SubSeq(text, n + 2, Len(text)), fetched)
             /\ HoldsAddress(SubSeq(text, n + 2, Len(text)), fetched)
             /\ ~HoldsAddress(original, fetched)
    /\ Len(issueComparisons) > 0 =>
          /\ Len(issueComparisons) = Len(sourceIssues)
          /\ \A j \in 1..Len(sourceIssues) :
                issueComparisons[j].sourceIssue = sourceIssues[j]

\* two issues were created, one with a body and one without
C15_Witness ==
    /\ pc = "Done"
    /\ Len(sourceIssues) = 2
    /\ sourceIssues[1].body = Undefined
    /\ sourceIssues[2].body.def
    /\ Ended("createIssue", 1, "ok")
    /\ Ended("createIssue", 2, "ok")


\* C16: every updateIssue call is for an update comparison, addresses the
\* target issue matched by title by its number, which is not the source
\* issue's, and passes the fetched source issue as it is: title, body,
\* state and labels, no backlink added.
C16_UpdateArguments ==
    \A k \in CallsOf("updateIssue") :
        LET j == calls[k].idx
            fetched == sourceIssues[j]
        IN /\ calls[k].on = "target"
           /\ issueComparisons[j].action = "update"
           /\ Matches(fetched.title) # {}
           /\ calls[k].num = targetIssues[FirstMatch(fetched.title)].number
           /\ calls[k].num # fetched.number
           /\ calls[k].arg.title = fetched.title
           /\ calls[k].arg.body = fetched.body
           /\ calls[k].arg.state = fetched.state
           /\ calls[k].arg.labels = fetched.labels
           /\ calls[k].arg.body.def => ~HoldsAddress(calls[k].arg.body.text, fetched)

\* the second source issue was updated: it is matched by the second of two
\* target issues and its body is missing
C16_Witness ==
    /\ Len(sourceIssues) = 2
    /\ Len(targetIssues) = 2
    /\ Ended("updateIssue", 2, "ok")
    /\ sourceIssues[2].body = Undefined
    /\ Matches(sourceIssues[2].title) = {2}


\* where the plan summary stands among the messages
PlanAt == {m \in 1..Len(out) : out[m].msg = "plan"}

\* the comparisons with this action
WithAction(a) ==
    {j \in 1..Len(issueComparisons) : issueComparisons[j].action = a}

\* C17: once both fetches have succeeded the plan summary has been emitted,
\* once, after the comparison (its counts are those of the comparisons
\* made) and before anything is done for a comparison: every message about
\* a comparison comes after it and no mutation call exists without it.
\* Create, Update and Skip are the numbers of comparisons with that action
\* and add up to the number of source issues.
C17_PlanBeforeMutations ==
    /\ FetchesOk <=> PlanAt # {}
    /\ (\E k \in 1..Len(calls) : calls[k].op \in MutationOps \/ calls[k].idx > 0)
          => PlanAt # {}
    /\ \A p \in PlanAt :
          /\ PlanAt = {p}
          /\ p > 1 /\ out[p - 1].msg = "analysis"
          /\ \A m \in 1..Len(out) : out[m].idx > 0 => p < m
          /\ Len(issueComparisons) = Len(sourceIssues)
          /\ out[p].arg.create = Cardinality(WithAction("create"))
          /\ out[p].arg.update = Cardinality(WithAction("update"))
          /\ out[p].arg.skip = Cardinality(WithAction("skip"))
          /\ out[p].arg.create + out[p].arg.update + out[p].arg.skip =
                Len(sourceIssues)

\* a plan of one update and one skip, and the update is under way
C17_Witness ==
    /\ \E p \in PlanAt : out[p].arg = [create |-> 0, update |-> 1, skip |-> 1]
    /\ \E j \in 1..Len(issueComparisons) : Called("updateIssue", j)


ReadOps == {"syncIssues", "getIssueComments", "getRepoInfo"}

\* C18: whatever fails, the source client is only asked to read
\* (syncIssues, getIssueComments, getRepoInfo); createIssue, updateIssue
\* and createIssueComment go to the target client, and updateIssue and
\* createIssueComment name the target issue that the fetched snapshot
\* matches by title to the source issue of their comparison.
C18_SourceOnlyRead ==
    \A k \in 1..Len(calls) :
        /\ calls[k].on \in {"source", "target"}
        /\ calls[k].op \in ReadOps \cup MutationOps
        /\ calls[k].on = "source" => calls[k].op \in ReadOps
        /\ calls[k].op \in MutationOps => calls[k].on = "target"
        /\ calls[k].op \in {"updateIssue", "createIssueComment"} =>
              /\ calls[k].idx \in 1..Len(sourceIssues)
              /\ Matches(sourceIssues[calls[k].idx].title) # {}
              /\ calls[k].num =
                    targetIssues[FirstMatch(sourceIssues[calls[k].idx].title)].number

\* a pass in which reading the repository description threw, an issue was
\* updated, one comment was created and the creation of another one threw
C18_Witness ==
    /\ \E k \in CallsOf("getRepoInfo") : calls[k].res = "throw"
    /\ \E k \in CallsOf("updateIssue") : calls[k].res = "ok"
    /\ \E k \in CallsOf("createIssueComment") : calls[k].res = "throw"
    /\ \E k \in CallsOf("createIssueComment") : calls[k].res = "ok"


CommentOps == {"getIssueComments", "createIssueComment"}

\* C20: for a comparison to create, no getIssueComments call and no
\* createIssueComment call is made in the pass, whether createIssue
\* returned or threw: comment synchronization is only ever entered for a
\* source issue whose title the fetched target snapshot holds.
C20_NoCommentsForCreated ==
    /\ \A k \in 1..Len(calls) :
          calls[k].op \in CommentOps =>
              /\ calls[k].idx \in 1..Len(issueComparisons)
              /\ issueComparisons[calls[k].idx].action # "create"
              /\ Matches(sourceIssues[calls[k].idx].title) # {}
    /\ pc \in CommentPcs => issueComparisons[cur].action # "create"

\* a completed pass that created one issue, failed to create another and
\* synchronized comments for neither
C20_Witness ==
    /\ pc = "Done"
    /\ Len(issueComparisons) = 2
    /\ Ended("createIssue", 1, "ok")
    /\ Ended("createIssue", 2, "throw")
    /\ CallsOf("getIssueComments") = {}
    /\ CallsOf("createIssueComment") = {}

-----------------------------------------------------------------------------
(* syncIssues called again and again on two repositories: the source does  *)
(* not change, the target keeps what it is sent, and no call throws        *)

\* a repository is the list of its issues, each with its thread
StoredIssues(repo) == [k \in 1..Len(repo) |-> repo[k].issue]

Holding(repo, number) ==
    CHOOSE k \in 1..Len(repo) : repo[k].issue.number = number

ThreadOf(repo, number) == repo[Holding(repo, number)].thread

\* target.createIssue(issue): the issue is kept as it is sent, under a
\* number of the target, with an empty thread
Created(repo, issue) ==
    Append(repo, [issue |-> [issue EXCEPT !.number = TargetNumber(Len(repo) + 1)],
                  thread |-> <<>>])

\* target.updateIssue(number, issue): the fields are overwritten with
\* those sent
Updated(repo, number, issue) ==
    [repo EXCEPT ![Holding(repo, number)].issue =
                     [issue EXCEPT !.number = number]]

\* target.createIssueComment(number, comment): the comment is added to the
\* thread as it is sent
Commented(repo, number, comment) ==
    [repo EXCEPT ![Holding(repo, number)].thread = Append(@, comment)]

\* the threads a source issue may have: none, one comment, two comments of
\* different or of equal body
ConvThreads == {t \in Threads : Len(t) > 0 => t[1].body = "p"}

\* the source: issues of pairwise distinct titles
ConvSources ==
    {[k \in 1..Len(l) |-> [issue |-> l[k], thread |-> t[k]]] :
     <<l, t>> \in UNION {{l \in SourceLists :
                              /\ Len(l) = n
                              /\ \A a, b \in 1..n :
                                    l[a].title = l[b].title => a = b}
                         \X [1..n -> ConvThreads] : n \in 0..MaxIssues}}

\* the target at first: an issue is open or closed, and has the opening
\* comment or none
ConvTargets ==
    {[k \in 1..Len(c) |->
        [issue |-> mkIssue(TargetNumber(k), c[k][1], Text(<<Lit("x")>>),
                           c[k][2], Labels),
         thread |-> c[k][3]]] :
     c \in SeqsUpTo(Titles \X {"open", "closed"}
                           \X {<<>>, <<mkComment(1, "p")>>}, ConvMaxIssues)}

InitConverge ==
    /\ pc = "start"
    /\ sourceIssues = <<>>
    /\ targetIssues = <<>>
    /\ issueComparisons = <<>>
    /\ cur = 0
    /\ sourceIssueNumber = 0
    /\ targetIssueNumber = 0
    /\ sourceComments = <<>>
    /\ targetComments = <<>>
    /\ commentComparisons = <<>>
    /\ ccur = 0
    /\ calls = <<>>
    /\ out = <<>>
    /\ thrown = NoError
    /\ repos \in [source : ConvSources, target : ConvTargets]

\* source.syncIssues() resolves to the issues of the source
FetchSourceIssues ==
    /\ ReturnSourceIssues
    /\ sourceIssues' = StoredIssues(repos.source)

\* target.syncIssues() resolves to the issues of the target: lines 110-117
FetchTargetIssues ==
    /\ pc = "awaitTargetIssues"
    /\ LET issues == StoredIssues(repos.target)
           comparisons == compareIssues(sourceIssues, issues)
           o == logSyncPlan(Append(out, Msg("info", "analysis", 0, NoArg)),
                            comparisons)
       IN /\ targetIssues' = issues
          /\ issueComparisons' = comparisons
          /\ Resume(ProcessFrom(comparisons, 1, Resolve(calls), o))
    /\ UNCHANGED <<sourceIssues, sourceComments, targetComments,
                   commentComparisons, thrown, repos>>

\* target.createIssue() resolves, the target holds the issue: lines 212,
\* 131 and 144
StoreCreateIssue ==
    /\ pc = "awaitCreateIssue"
    /\ repos' = [repos EXCEPT !.target = Created(@, calls[Len(calls)].arg)]
    /\ Resume(AfterSwitch(issueComparisons, cur, Resolve(calls),
                          Append(out, Msg("info", "created", cur, NoArg))))
    /\ UNCHANGED <<Snapshot, sourceComments, targetComments, commentComparisons>>

\* target.updateIssue() resolves, the target holds the fields: lines 226,
\* 135 and 144
StoreUpdateIssue ==
    /\ pc = "awaitUpdateIssue"
    /\ repos' = [repos EXCEPT !.target = Updated(@, calls[Len(calls)].num,
                                                 calls[Len(calls)].arg)]
    /\ Resume(AfterSwitch(issueComparisons, cur, Resolve(calls),
                          Append(out, Msg("info", "updated", cur, NoArg))))
    /\ UNCHANGED <<Snapshot, sourceComments, targetComments, commentComparisons>>

\* source.getIssueComments() resolves to the thread of the source issue
FetchSourceComments ==
    /\ ReturnSourceComments
    /\ sourceComments' = ThreadOf(repos.source, sourceIssueNumber)

\* target.getIssueComments() resolves to the thread of the target issue:
\* lines 182-187
FetchTargetComments ==
    /\ pc = "awaitTargetComments"
    /\ LET comments == ThreadOf(repos.target, targetIssueNumber)
           cmps == compareComments(sourceComments, comments)
           ctl == CommentLoop(issueComparisons, cur, sourceIssueNumber,
                              targetIssueNumber, cmps, 1,
                              Resolve(calls), out)
       IN IF ctl.pc = "awaitCreateComment"
          THEN /\ Resume(ctl)
               /\ targetComments' = comments
               /\ commentComparisons' = cmps
               /\ UNCHANGED sourceComments
          ELSE ResumeFreed(ctl)
    /\ UNCHANGED Fetched

\* target.createIssueComment() resolves, the target holds the comment:
\* lines 236 and 184
StoreCreateComment ==
    /\ pc = "awaitCreateComment"
    /\ repos' = [repos EXCEPT !.target = Commented(@, calls[Len(calls)].num,
                                                   calls[Len(calls)].arg)]
    /\ ResumeComments(
          CommentLoop(issueComparisons, cur, sourceIssueNumber,
                      targetIssueNumber, commentComparisons, ccur + 1,
                      Resolve(calls),
                      Append(out, Msg("info", "createdComment", cur, NoArg))))
    /\ UNCHANGED Snapshot

\* the pass has completed and syncIssues is called once more: its locals
\* are new, the repositories are as the pass left them
NextPass ==
    /\ pc = "Done"
    /\ pc' = "start"
    /\ sourceIssues' = <<>>
    /\ targetIssues' = <<>>
    /\ issueComparisons' = <<>>
    /\ cur' = 0
    /\ sourceIssueNumber' = 0
    /\ targetIssueNumber' = 0
    /\ sourceComments' = <<>>
    /\ targetComments' = <<>>
    /\ commentComparisons' = <<>>
    /\ ccur' = 0
    /\ calls' = <<>>
    /\ out' = <<>>
    /\ UNCHANGED <<thrown, repos>>

NextConverge ==
    \/ Start
    \/ FetchSourceIssues
    \/ FetchTargetIssues
    \/ ReturnRepoInfo
    \/ StoreCreateIssue
    \/ StoreUpdateIssue
    \/ FetchSourceComments
    \/ FetchTargetComments
    \/ StoreCreateComment
    \/ NextPass

\* passes are repeated, and every call of a pass returns
SpecConverge == InitConverge /\ [][NextConverge]_vars /\ WF_vars(NextConverge)

-----------------------------------------------------------------------------
(* Claims about repeated passes, under SpecConverge *)

\* so far the pass has found nothing to do: every comparison is skip and
\* no createIssue, updateIssue or createIssueComment call was made
Quiet ==
    /\ \A j \in 1..Len(issueComparisons) : issueComparisons[j].action = "skip"
    /\ \A k \in 1..Len(calls) : calls[k].op \notin MutationOps

\* a pass has completed that compared every source issue and was quiet
QuietPass ==
    /\ pc = "Done"
    /\ Len(issueComparisons) = Len(repos.source)
    /\ Quiet

\* C19: with a source of pairwise distinct titles that does not change, a
\* target that keeps issues and comments as they are sent and no failing
\* call, the passes go on completing, from some pass on every pass has
\* only skip comparisons and makes no createIssue, updateIssue or
\* createIssueComment call, and once a pass was so, every later one is.
C19_Converges ==
    /\ []<>(pc = "Done")
    /\ <>[]Quiet
    /\ [](QuietPass => []Quiet)

\* a quiet pass over two source issues, after passes that created one of
\* them (the target held fewer issues at first), took the backlink out of
\* its body again and copied the two comments of its thread
C19_Witness ==
    /\ QuietPass
    /\ Len(repos.source) = 2
    /\ \E k \in 1..Len(repos.target) :
          /\ k > ConvMaxIssues
          /\ repos.target[k].issue.title = repos.source[2].issue.title
          /\ repos.target[k].issue.body = Undefined
          /\ Len(repos.target[k].thread) = 2
          /\ repos.source[2].thread = repos.target[k].thread

=============================================================================
